---- MODULE Spec2Model ----
(***************************************************************************)
(* Model of backend/main.py: a FastAPI application over one PostgreSQL     *)
(* database.  Every request handler opens its own psycopg2 connection;     *)
(* psycopg2 opens a transaction at the first statement of a connection and *)
(* the handler ends it with commit(), rollback() or close().  The database *)
(* is modelled as its committed state (tables, registry), one uncommitted  *)
(* overlay per connection (txT, txR), the ACCESS EXCLUSIVE table locks     *)
(* that CREATE/TRUNCATE/DROP hold until the transaction ends (locks), and  *)
(* the row locks on dataset_registry rows (rlocks).  Statements run at     *)
(* READ COMMITTED: each one sees the committed state plus the overlay of   *)
(* its own connection.  Requests of different workers interleave at        *)
(* statement granularity; the handlers hold no lock of their own.  Readers *)
(* wait for an exclusively locked table; their own ACCESS SHARE locks,     *)
(* which only delay writers, are not modelled, nor is the order of         *)
(* list_datasets() (uploaded_at).                                          *)
(*                                                                         *)
(* Strings are sequences of one-character strings, so that the name        *)
(* conversions are computed and not assumed.  "U00B7" stands for the one   *)
(* character MIDDLE DOT (U+00B7).  A data row is kept as its school_code   *)
(* and the number of fields its CSV line carries.                          *)
(***************************************************************************)
EXTENDS Integers, Sequences, FiniteSets, TLC

\* ---------------------------------------------------------------- bounds
Workers == 2
MaxRequests == 2
MaxFiles == 2
MaxRows == 1

\* The COPY column list: school_code .. designation.
NumColumns == 5

Slots == 1..Workers

\* ------------------------------------------------------------ characters
LowerLetters == {"a", "c", "d", "s", "t", "v", "x", "y"}
UpperLetters == {"C", "S", "V", "X"}
Digits == {"1"}
MidDot == "U00B7"

LowerChar(c) ==
  CASE c = "C" -> "c"
    [] c = "S" -> "s"
    [] c = "V" -> "v"
    [] c = "X" -> "x"
    [] OTHER -> c

\* str.lower()
Lower(s) == [i \in 1..Len(s) |-> LowerChar(s[i])]

DotCsv == <<".", "c", "s", "v">>

StartsWithAt(s, i, p) ==
  /\ i + Len(p) - 1 <= Len(s)
  /\ \A k \in 1..Len(p) : s[i + k - 1] = p[k]

\* str.endswith(suffix)
EndsWith(s, p) == Len(s) >= Len(p) /\ StartsWithAt(s, Len(s) - Len(p) + 1, p)

\* str.replace(".csv", ""): left to right, non-overlapping occurrences.
RECURSIVE RemoveFrom(_, _, _)
RemoveFrom(s, i, p) ==
  IF i > Len(s) THEN <<>>
  ELSE IF StartsWithAt(s, i, p) THEN RemoveFrom(s, i + Len(p), p)
  ELSE <<s[i]>> \o RemoveFrom(s, i + 1, p)

\* The complement of the regex class [^a-z0-9_].
SafeChars == LowerLetters \cup Digits \cup {"_"}

\* re.sub(r"[^a-z0-9_]+", "_", name): each maximal run becomes one "_".
RECURSIVE CollapseFrom(_, _)
CollapseFrom(s, i) ==
  IF i > Len(s) THEN <<>>
  ELSE IF s[i] \in SafeChars THEN <<s[i]>> \o CollapseFrom(s, i + 1)
  ELSE IF i > 1 /\ s[i - 1] \notin SafeChars THEN CollapseFrom(s, i + 1)
  ELSE <<"_">> \o CollapseFrom(s, i + 1)

DataPrefix == <<"d", "a", "t", "a", "_">>

safe_table_name(name) ==
  DataPrefix \o CollapseFrom(RemoveFrom(Lower(name), 1, DotCsv), 1)

\* str.isidentifier(): XID_Start then XID_Continue*.  MIDDLE DOT is
\* Other_ID_Continue, so it may follow the first character.
XIDStart == LowerLetters \cup UpperLetters \cup {"_"}
XIDContinue == XIDStart \cup Digits \cup {MidDot}

isidentifier(s) ==
  /\ Len(s) > 0
  /\ s[1] \in XIDStart
  /\ \A i \in 2..Len(s) : s[i] \in XIDContinue

\* The guard with its negation lost.
IsNotCsvInverted(name) == EndsWith(Lower(name), DotCsv)

\* The upload loop's guard: file.filename.lower().endswith(".csv").
IsNotCsv(name) == ~EndsWith(Lower(name), DotCsv)


\* ---------------------------------------------------------------- inputs
Codes == {"c1", "c2"}

\* One CSV data line: how many fields it carries, and its first field.
GoodRows == [n : {NumColumns}, school_code : Codes]
BadRows == [n : {NumColumns - 1}, school_code : {"c1"}]
RowKinds == GoodRows \cup BadRows

RowSeqs == UNION {[1..k -> RowKinds] : k \in 0..MaxRows}

FileNames ==
  { <<"x", ".", "c", "s", "v">>,
    <<"X", ".", "C", "S", "V">>,
    <<"x", ".", "t", "x", "t">> }

\* Caller-supplied table strings of search, delete and download.
NameInputs ==
  { <<"x">>,
    <<"d", "a", "t", "a", "_", "x">>,
    <<"x", MidDot, "y">>,
    <<"x", " ", "y">> }

\* Every name a statement of the model can target.
AllNames ==
  {safe_table_name(n) : n \in FileNames \cup NameInputs} \cup NameInputs

\* ----------------------------------------------------------------- state
VARIABLES
  tables,      \* committed data tables: name -> [live, rows, indexed]
  registry,    \* committed dataset_registry: table_name -> [live, original_filename, row_count]
  metaExists,  \* whether a relation datasets_meta exists in the database
  locks,       \* ACCESS EXCLUSIVE table locks: name -> holding slot, 0 if free
  rlocks,      \* row locks on dataset_registry: table_name -> holding slot, 0 if free
  req,         \* per worker slot: the request in flight and its connection's transaction
  served,      \* requests started so far
  openConns    \* database connections opened and not closed

vars == <<tables, registry, metaExists, locks, rlocks, req, served, openConns>>

NoTable == [live |-> FALSE, rows |-> <<>>, indexed |-> FALSE]
NewTable == [live |-> TRUE, rows |-> <<>>, indexed |-> FALSE]
NoEntry == [live |-> FALSE, original_filename |-> <<>>, row_count |-> 0]

\* An UploadFile: its filename and the data lines after the header line.
NoFile == [name |-> <<>>, rows |-> <<>>]
NoRes == [status |-> 0, body |-> <<>>]

\* A connection with no transaction open: nothing written.
NoTx ==
  [ wT |-> {}, txT |-> [T \in AllNames |-> NoTable],
    wR |-> {}, txR |-> [T \in AllNames |-> NoEntry] ]

Idle ==
  [ kind |-> "none", pc |-> "idle", arg |-> <<>>, val |-> "", tbl |-> <<>>,
    file |-> NoFile, idx |-> 0, nfiles |-> 0, nok |-> 0, row_count |-> 0,
    res |-> NoRes, tx |-> NoTx ]

Init ==
  /\ tables = [T \in AllNames |-> NoTable]
  /\ registry = [T \in AllNames |-> NoEntry]
  /\ metaExists \in BOOLEAN
  /\ locks = [T \in AllNames |-> 0]
  /\ rlocks = [T \in AllNames |-> 0]
  /\ req = [r \in Slots |-> Idle]
  /\ served = 0
  /\ openConns = 0

\* ------------------------------------------------------- the database
\* The committed data tables, and the committed registry rows.
Existing == {T \in AllNames : tables[T].live}
Registered == {T \in AllNames : registry[T].live}

\* What a statement of slot r's connection sees of table T and of registry
\* row T: its own uncommitted write, else the committed state.
TableView(r, T) == IF T \in req[r].tx.wT THEN req[r].tx.txT[T] ELSE tables[T]

TableVisible(r, T) == TableView(r, T).live

RegVisible(r, T) ==
  IF T \in req[r].tx.wR THEN req[r].tx.txR[T].live ELSE registry[T].live

LockFree(r, T) == locks[T] \in {0, r}

RowLockFree(r, T) == rlocks[T] \in {0, r}

Released(l, r) == [T \in AllNames |-> IF l[T] = r THEN 0 ELSE l[T]]

\* conn.commit(): the transaction's writes become the committed state and
\* its locks are released.
Commit(r) ==
  /\ tables' = [T \in AllNames |-> TableView(r, T)]
  /\ registry' = [T \in AllNames |->
       IF T \in req[r].tx.wR THEN req[r].tx.txR[T] ELSE registry[T]]
  /\ locks' = Released(locks, r)
  /\ rlocks' = Released(rlocks, r)

\* A rollback that leaves the transaction's table writes behind (DDL and
\* TRUNCATE outside the transaction: the orphaned table).
RollbackKeepsTables(r) ==
  /\ tables' = [T \in AllNames |-> TableView(r, T)]
  /\ registry' = registry
  /\ locks' = Released(locks, r)
  /\ rlocks' = Released(rlocks, r)

\* conn.rollback(), and the implicit rollback of conn.close(): the
\* transaction's writes are discarded and its locks are released.
Rollback(r) ==
  /\ tables' = tables
  /\ registry' = registry
  /\ locks' = Released(locks, r)
  /\ rlocks' = Released(rlocks, r)

\* ------------------------------------------------------------- requests
Free(r) == req[r].pc \in {"idle", "done"}

\* A new request is taken by the lowest free worker slot.
CanStart(r) ==
  /\ served < MaxRequests
  /\ Free(r)
  /\ \A q \in Slots : q < r => ~Free(q)

Response(code, body) == [status |-> code, body |-> body]

\* get_db_conn() / psycopg2.connect(): a connection of the request's own.
Begin(r, rec) ==
  /\ req' = [req EXCEPT ![r] = rec]
  /\ served' = served + 1
  /\ openConns' = openConns + 1
  /\ UNCHANGED <<tables, registry, metaExists, locks, rlocks>>

\* A request rejected before it opens a connection.
Reject(r, rec) ==
  /\ req' = [req EXCEPT ![r] = rec]
  /\ served' = served + 1
  /\ UNCHANGED <<tables, registry, metaExists, locks, rlocks, openConns>>

\* A step that changes only the request's own locals.
Local(r, rec) ==
  /\ req' = [req EXCEPT ![r] = rec]
  /\ UNCHANGED <<tables, registry, metaExists, locks, rlocks, served, openConns>>

\* A statement that writes slot r's overlay of table T and takes its lock.
WriteTable(r, T, v, nextpc) ==
  /\ req' = [req EXCEPT ![r] =
       [@ EXCEPT !.tx.wT = @ \cup {T}, !.tx.txT[T] = v, !.pc = nextpc]]
  /\ locks' = [locks EXCEPT ![T] = r]
  /\ UNCHANGED <<tables, registry, metaExists, rlocks, served, openConns>>

\* A statement that writes slot r's overlay of registry row T and locks the row.
WriteRegistry(r, T, v, nextpc) ==
  /\ req' = [req EXCEPT ![r] =
       [@ EXCEPT !.tx.wR = @ \cup {T}, !.tx.txR[T] = v, !.pc = nextpc]]
  /\ rlocks' = [rlocks EXCEPT ![T] = r]
  /\ UNCHANGED <<tables, registry, metaExists, locks, served, openConns>>

\* finally: conn.close().  Closing ends an open transaction by rollback.
\* The handler's locals die with it; the response stays.
Close(r) ==
  /\ req[r].pc = "close"
  /\ Rollback(r)
  /\ req' = [req EXCEPT ![r] =
       [Idle EXCEPT !.kind = req[r].kind, !.pc = "done", !.res = req[r].res]]
  /\ openConns' = openConns - 1
  /\ UNCHANGED <<metaExists, served>>

\* ------------------------------------------------ POST /upload-csv
StartUpload(r) ==
  /\ CanStart(r)
  /\ \E n \in 1..MaxFiles :
       Begin(r, [Idle EXCEPT !.kind = "upload", !.pc = "loop", !.nfiles = n])

\* for file in files: skip a name that is not .csv, else derive the table
\* and spool the body to the temporary file; after the last file, return.
UploadLoop(r) ==
  /\ req[r].kind = "upload"
  /\ req[r].pc = "loop"
  /\ IF req[r].idx = req[r].nfiles
     THEN Local(r, [req[r] EXCEPT !.pc = "close", !.res = Response(200, <<>>)])
     ELSE \E n \in FileNames :
            IF IsNotCsv(n)
            THEN Local(r, [req[r] EXCEPT !.file = [NoFile EXCEPT !.name = n],
                                         !.idx = @ + 1])
            ELSE Local(r, [req[r] EXCEPT !.file = [NoFile EXCEPT !.name = n],
                                         !.idx = @ + 1,
                                         !.tbl = safe_table_name(n),
                                         !.pc = "create"])

\* A failure that is swallowed: the loop goes on to the next file.
UploadFailContinues(r) ==
  /\ Rollback(r)
  /\ req' = [req EXCEPT ![r] = [@ EXCEPT !.pc = "loop", !.tx = NoTx]]
  /\ UNCHANGED <<metaExists, served, openConns>>

\* except Exception: conn.rollback(); raise HTTPException(500); the inner
\* finally removes the temporary file and the outer one closes the connection.
UploadFail(r) ==
  /\ Rollback(r)
  /\ req' = [req EXCEPT ![r] =
       [@ EXCEPT !.pc = "close", !.res = Response(500, <<>>),
                 !.tx = NoTx]]
  /\ UNCHANGED <<metaExists, served, openConns>>

\* CREATE TABLE IF NOT EXISTS.  An existing table is skipped without a lock.
\* A name another transaction is creating makes the statement wait.
UploadCreate(r) ==
  /\ req[r].kind = "upload"
  /\ req[r].pc = "create"
  /\ LET T == req[r].tbl IN
       IF TableVisible(r, T)
       THEN Local(r, [req[r] EXCEPT !.pc = "truncate"])
       ELSE IF ~LockFree(r, T)
       THEN Local(r, [req[r] EXCEPT !.pc = "create_wait"])
       ELSE WriteTable(r, T, NewTable, "truncate")

\* The waiting CREATE TABLE resumes when the other transaction has ended: a
\* unique violation on the catalog if it committed, the creation if not.
UploadCreateResume(r) ==
  /\ req[r].kind = "upload"
  /\ req[r].pc = "create_wait"
  /\ LET T == req[r].tbl IN
       /\ LockFree(r, T)
       /\ IF TableVisible(r, T)
          THEN UploadFail(r)
          ELSE WriteTable(r, T, NewTable, "truncate")

\* A statement that empties the table without waiting for its lock.
TruncateNoWait(r, T) == TRUE

\* TRUNCATE needs the table's ACCESS EXCLUSIVE lock: it waits while another
\* transaction holds it.
TruncateMayRun(r, T) == LockFree(r, T)

\* TRUNCATE TABLE: fails on a missing table, else waits for the table's lock
\* and empties the table.
UploadTruncate(r) ==
  /\ req[r].kind = "upload"
  /\ req[r].pc = "truncate"
  /\ LET T == req[r].tbl IN
       IF ~TableVisible(r, T)
       THEN UploadFail(r)
       ELSE /\ TruncateMayRun(r, T)
            /\ WriteTable(r, T, [TableView(r, T) EXCEPT !.rows = <<>>], "copy")

\* COPY ... FROM STDIN WITH (FORMAT CSV, HEADER): a data line whose field
\* count is not that of the column list is rejected.
CopyRejects(rows) == \E i \in 1..Len(rows) : rows[i].n # NumColumns

CopyRows(rows) == [i \in 1..Len(rows) |-> rows[i].school_code]

\* The data lines of the uploaded file are an input of the request; the model
\* draws them here, where COPY reads them from the temporary file.
UploadCopy(r) ==
  /\ req[r].kind = "upload"
  /\ req[r].pc = "copy"
  /\ \E rows \in RowSeqs :
       LET T == req[r].tbl IN
         IF CopyRejects(rows)
         THEN UploadFail(r)
         ELSE /\ req' = [req EXCEPT ![r] =
                   [@ EXCEPT !.file.rows = rows,
                             !.tx.wT = @ \cup {T},
                             !.tx.txT[T] =
                               [TableView(r, T) EXCEPT !.rows = @ \o CopyRows(rows)],
                             !.pc = "index"]]
              /\ locks' = [locks EXCEPT ![T] = r]
              /\ UNCHANGED <<tables, registry, metaExists, rlocks, served, openConns>>

\* CREATE INDEX IF NOT EXISTS idx_<table>_school
UploadIndex(r) ==
  /\ req[r].kind = "upload"
  /\ req[r].pc = "index"
  /\ LET T == req[r].tbl IN
       WriteTable(r, T, [TableView(r, T) EXCEPT !.indexed = TRUE], "count")

\* SELECT COUNT(*)
UploadCount(r) ==
  /\ req[r].kind = "upload"
  /\ req[r].pc = "count"
  /\ Local(r, [req[r] EXCEPT !.row_count = Len(TableView(r, req[r].tbl).rows),
                             !.pc = "upsert"])

\* INSERT INTO dataset_registry ... ON CONFLICT (table_name) DO UPDATE
UploadUpsert(r) ==
  /\ req[r].kind = "upload"
  /\ req[r].pc = "upsert"
  /\ LET T == req[r].tbl IN
       /\ RowLockFree(r, T)
       /\ WriteRegistry(r, T,
            [live |-> TRUE, original_filename |-> req[r].file.name,
             row_count |-> req[r].row_count],
            "commit")

\* conn.commit(), the log line, and the inner finally; then the next file.
UploadCommit(r) ==
  /\ req[r].kind = "upload"
  /\ req[r].pc = "commit"
  /\ Commit(r)
  /\ req' = [req EXCEPT ![r] =
       [@ EXCEPT !.pc = "loop", !.nok = @ + 1,
                 !.tx = NoTx]]
  /\ UNCHANGED <<metaExists, served, openConns>>


\* ------------------------------------------------ DROP TABLE IF EXISTS
\* A missing table is skipped; an existing one is dropped under its lock.
DropTableIfExists(r, T, nextpc) ==
  IF TableVisible(r, T)
  THEN /\ LockFree(r, T)
       /\ WriteTable(r, T, NoTable, nextpc)
  ELSE Local(r, [req[r] EXCEPT !.pc = nextpc])

\* ------------------------------------------------ DELETE /datasets/{table}
StartDelete(r) ==
  /\ CanStart(r)
  /\ \E a \in NameInputs :
       Begin(r, [Idle EXCEPT !.kind = "delete", !.pc = "drop", !.arg = a,
                             !.tbl = safe_table_name(a)])

DeleteDrop(r) ==
  /\ req[r].kind = "delete"
  /\ req[r].pc = "drop"
  /\ DropTableIfExists(r, req[r].tbl, "delreg")

\* DELETE FROM dataset_registry WHERE table_name = %s: a visible row is
\* deleted under its row lock; a row no committed version of which exists
\* is not seen.
DeleteRegistry(r) ==
  /\ req[r].kind = "delete"
  /\ req[r].pc = "delreg"
  /\ LET T == req[r].tbl IN
       IF RegVisible(r, T)
       THEN /\ RowLockFree(r, T)
            /\ WriteRegistry(r, T, NoEntry, "commit")
       ELSE Local(r, [req[r] EXCEPT !.pc = "commit"])

DeleteCommit(r) ==
  /\ req[r].kind = "delete"
  /\ req[r].pc = "commit"
  /\ Commit(r)
  /\ req' = [req EXCEPT ![r] =
       [@ EXCEPT !.pc = "close", !.res = Response(200, <<>>),
                 !.tx = NoTx]]
  /\ UNCHANGED <<metaExists, served, openConns>>

\* ------------------------------------------------ POST /datasets/delete
StartPostDelete(r) ==
  /\ CanStart(r)
  /\ \E a \in NameInputs :
       IF ~isidentifier(a)
       THEN Reject(r, [Idle EXCEPT !.kind = "postdelete", !.pc = "done",
                                   !.res = Response(400, <<>>)])
       ELSE Begin(r, [Idle EXCEPT !.kind = "postdelete", !.pc = "drop",
                                  !.arg = a, !.tbl = a])

PostDeleteDrop(r) ==
  /\ req[r].kind = "postdelete"
  /\ req[r].pc = "drop"
  /\ DropTableIfExists(r, req[r].tbl, "delmeta")

\* DELETE FROM datasets_meta: nothing ever inserts into that relation, so the
\* statement deletes nothing if the relation exists and raises if it does not.
PostDeleteMeta(r) ==
  /\ req[r].kind = "postdelete"
  /\ req[r].pc = "delmeta"
  /\ IF metaExists
     THEN Local(r, [req[r] EXCEPT !.pc = "commit"])
     ELSE Local(r, [req[r] EXCEPT !.pc = "close", !.res = Response(500, <<>>)])

PostDeleteCommit(r) ==
  /\ req[r].kind = "postdelete"
  /\ req[r].pc = "commit"
  /\ Commit(r)
  /\ req' = [req EXCEPT ![r] =
       [@ EXCEPT !.pc = "close", !.res = Response(200, <<>>),
                 !.tx = NoTx]]
  /\ UNCHANGED <<metaExists, served, openConns>>

\* ------------------------------------------------ GET /search
StartSearch(r) ==
  /\ CanStart(r)
  /\ \E a \in NameInputs, v \in Codes :
       Begin(r, [Idle EXCEPT !.kind = "search", !.pc = "select", !.arg = a,
                             !.val = v, !.tbl = safe_table_name(a)])

Matching(rows, v) == LET Hit(c) == c = v IN SelectSeq(rows, Hit)

\* An empty result turned into a not-found error.
SearchResponseNotFound(found) ==
  IF found = <<>> THEN Response(404, <<>>) ELSE Response(200, found)

\* cur.fetchall() returned as the response, whatever its length.
SearchResponse(found) == Response(200, found)

\* SELECT ... FROM {table} WHERE school_code = %s: raises on a missing
\* table (HTTP 500), waits while the table is exclusively locked.
SearchSelect(r) ==
  /\ req[r].kind = "search"
  /\ req[r].pc = "select"
  /\ LET T == req[r].tbl IN
       IF ~tables[T].live
       THEN Local(r, [req[r] EXCEPT !.pc = "close", !.res = Response(500, <<>>)])
       ELSE /\ LockFree(r, T)
            /\ Local(r, [req[r] EXCEPT !.pc = "close",
                   !.res = SearchResponse(Matching(tables[T].rows, req[r].val))])

\* ------------------------------------------------ GET /download/{table}
\* main.py defines download_table twice on the same path and method.  Both
\* are registered as routes when they are decorated, and the router serves
\* the first route that matches, so every request runs the first definition
\* (the COPY ... TO STDOUT one); the second is never routed to and is not an
\* action of the model.
StartDownload(r) ==
  /\ CanStart(r)
  /\ \E a \in NameInputs :
       Begin(r, [Idle EXCEPT !.kind = "download", !.pc = "copyout", !.arg = a,
                             !.tbl = safe_table_name(a)])

\* cur.execute("COPY (...) TO STDOUT ..."): psycopg2's execute() raises on a
\* COPY TO STDOUT, and the server raises on a missing table.  The handler has
\* no try/finally: the exception leaves it (HTTP 500) with the connection
\* open.
DownloadCopyOut(r) ==
  /\ req[r].kind = "download"
  /\ req[r].pc = "copyout"
  /\ tables[req[r].tbl].live => LockFree(r, req[r].tbl)
  /\ Local(r, [Idle EXCEPT !.kind = "download", !.pc = "done",
                          !.res = Response(500, <<>>)])

\* ------------------------------------------------ GET /datasets
\* The table names list_datasets() returns (its order is not modelled).
ListDatasets == Registered

StartList(r) ==
  /\ CanStart(r)
  /\ Begin(r, [Idle EXCEPT !.kind = "list", !.pc = "select"])

ListSelect(r) ==
  /\ req[r].kind = "list"
  /\ req[r].pc = "select"
  /\ Local(r, [req[r] EXCEPT !.pc = "close", !.res = Response(200, ListDatasets)])

\* ------------------------------------------------------- specification
Next ==
  \E r \in Slots :
    \/ StartUpload(r)
    \/ UploadLoop(r)
    \/ UploadCreate(r)
    \/ UploadCreateResume(r)
    \/ UploadTruncate(r)
    \/ UploadCopy(r)
    \/ UploadIndex(r)
    \/ UploadCount(r)
    \/ UploadUpsert(r)
    \/ UploadCommit(r)
    \/ StartDelete(r)
    \/ DeleteDrop(r)
    \/ DeleteRegistry(r)
    \/ DeleteCommit(r)
    \/ StartPostDelete(r)
    \/ PostDeleteDrop(r)
    \/ PostDeleteMeta(r)
    \/ PostDeleteCommit(r)
    \/ StartSearch(r)
    \/ SearchSelect(r)
    \/ StartDownload(r)
    \/ DownloadCopyOut(r)
    \/ StartList(r)
    \/ ListSelect(r)
    \/ Close(r)

Spec == Init /\ [][Next]_vars


\* =============================================================== claims
Uploading(r) == req[r].kind = "upload"

\* Slot r takes a step.
Steps(r) == req'[r] # req[r]

\* The step in which a statement of an upload fails: the request leaves the
\* statement without going on to the statement after it.
FailStep(r) ==
  /\ Uploading(r)
  /\ Steps(r)
  /\ \/ req[r].pc = "create_wait" /\ req'[r].pc # "truncate"
     \/ req[r].pc = "truncate" /\ req'[r].pc # "copy"
     \/ req[r].pc = "copy" /\ req'[r].pc # "index"

\* The step in which an upload commits the file it has loaded.
UploadCommitStep(r) ==
  /\ Uploading(r)
  /\ req[r].pc = "commit"
  /\ Steps(r)

\* ---------------------------------------------------------------- C1
\* C1: in every committed state a dataset_registry entry for T exists if
\* and only if the data table T exists.
C1_RegistryIffTable == Registered = Existing

C3_DeletedIsGone ==
  [][\A r \in Slots :
       ( /\ req[r].kind \in {"delete", "postdelete"}
         /\ req[r].pc = "commit"
         /\ Steps(r)
         /\ req[r].arg \in ListDatasets )
       => req[r].arg \notin ListDatasets']_vars

\* ---------------------------------------------------------------- C4
\* An upload that has executed its CREATE TABLE and has not yet committed or
\* failed.
Provisioned(r) ==
  /\ Uploading(r)
  /\ req[r].pc \in {"truncate", "copy", "index", "count", "upsert", "commit"}

\* An upload whose transaction has written the table (created or truncated
\* it) and has not yet committed or failed.
Loading(r) == Uploading(r) /\ req[r].tbl \in req[r].tx.wT

C5_UploadThenDownload ==
  [][\A r \in Slots :
       /\ UploadCommitStep(r) =>
            /\ tables'[req[r].tbl].rows = CopyRows(req[r].file.rows)
            /\ registry'[req[r].tbl].row_count = Len(req[r].file.rows)
       /\ ( /\ req[r].kind = "download"
            /\ req[r].pc = "copyout"
            /\ Steps(r)
            /\ tables[req[r].tbl].live )
          => /\ req'[r].res.status = 200
             /\ req'[r].res.body = tables[req[r].tbl].rows]_vars

\* ---------------------------------------------------------------- C6
\* Letters, digits and underscore, not starting with a digit.
StrictIdentifier(s) ==
  /\ Len(s) > 0
  /\ \A i \in 1..Len(s) :
       s[i] \in LowerLetters \cup UpperLetters \cup Digits \cup {"_"}
  /\ s[1] \notin Digits

\* C6: the table name a handler places into its SQL statements always
\* satisfies the strict identifier grammar.
C6_NamesAreIdentifiers ==
  \A r \in Slots :
    (req[r].pc \notin {"idle", "done"} /\ req[r].tbl # <<>>)
      => StrictIdentifier(req[r].tbl)

\* ---------------------------------------------------------------- C7
\* C7: a search of an existing table for a school_code no row has answers
\* with the empty result (HTTP 200, no rows), not with an error.
C7_EmptySearch ==
  [][\A r \in Slots :
       ( /\ req[r].kind = "search"
         /\ req[r].pc = "select"
         /\ Steps(r)
         /\ tables[req[r].tbl].live
         /\ \A i \in 1..Len(tables[req[r].tbl].rows) :
              tables[req[r].tbl].rows[i] # req[r].val )
       => req'[r].res = Response(200, <<>>)]_vars

\* A search that found nothing in a table that holds rows.
C7_Witness ==
  \E r \in Slots :
    /\ req[r].kind = "search"
    /\ req[r].pc = "close"
    /\ req[r].res = Response(200, <<>>)
    /\ tables[req[r].tbl].live
    /\ tables[req[r].tbl].rows # <<>>
    /\ \A i \in 1..Len(tables[req[r].tbl].rows) :
         tables[req[r].tbl].rows[i] # req[r].val

\* ---------------------------------------------------------------- C8
\* The last four characters are ".csv" in any letter case.
HasCsvSuffix(n) ==
  /\ Len(n) >= 4
  /\ n[Len(n) - 3] = "."
  /\ n[Len(n) - 2] \in {"c", "C"}
  /\ n[Len(n) - 1] \in {"s", "S"}
  /\ n[Len(n)] \in {"v", "V"}

\* C8: a file whose name does not end in .csv is skipped: the step that takes
\* it from the request changes no table, registry row, lock or transaction
\* and goes on to the next file; no upload is ever provisioning or loading
\* for such a file.
C8_NonCsvSkipped ==
  /\ [](\A r \in Slots :
          (Uploading(r) /\ req[r].pc \notin {"loop", "close", "done"})
            => HasCsvSuffix(req[r].file.name))
  /\ [][\A r \in Slots :
          ( /\ Uploading(r)
            /\ req[r].pc = "loop"
            /\ req'[r].idx = req[r].idx + 1
            /\ ~HasCsvSuffix(req'[r].file.name) )
          => /\ req'[r].pc = "loop"
             /\ req'[r].tx = req[r].tx
             /\ UNCHANGED <<tables, registry, locks, rlocks>>]_vars

\* An upload that has just skipped a file that is not .csv.
C8_Witness ==
  \E r \in Slots :
    /\ Uploading(r)
    /\ req[r].pc = "loop"
    /\ req[r].idx >= 1
    /\ req[r].file.name # <<>>
    /\ ~HasCsvSuffix(req[r].file.name)

\* ---------------------------------------------------------------- C9
\* C9: each file of an upload request is committed on its own (no write is
\* pending when the loop takes the next file, and the commit step publishes
\* the file's table and registry row); the failure of a file changes nothing
\* that is committed; and after the failure the request only closes its
\* connection: it takes no further file and changes no table or registry row.
C9_PerFileCommit ==
  /\ [](\A r \in Slots :
          (Uploading(r) /\ req[r].pc \in {"loop", "create"}) => req[r].tx = NoTx)
  /\ [][\A r \in Slots :
          /\ UploadCommitStep(r) =>
               /\ tables'[req[r].tbl] = req[r].tx.txT[req[r].tbl]
               /\ registry'[req[r].tbl] = req[r].tx.txR[req[r].tbl]
               /\ req'[r].nok = req[r].nok + 1
          /\ FailStep(r) =>
               /\ req'[r].pc = "close"
               /\ req'[r].res.status = 500
               /\ req'[r].idx = req[r].idx
               /\ req'[r].nok = req[r].nok
               /\ tables' = tables
               /\ registry' = registry
          /\ (Uploading(r) /\ req[r].pc = "close" /\ Steps(r)) =>
               /\ req'[r].pc = "done"
               /\ tables' = tables
               /\ registry' = registry]_vars

\* Two failed requests of two files each: one whose first file failed, its
\* second file never taken; one whose first file is committed and whose
\* second failed.
C9_Witness ==
  \E r1, r2 \in Slots :
    /\ Uploading(r1) /\ req[r1].pc = "close" /\ req[r1].res.status = 500
    /\ req[r1].nfiles = 2 /\ req[r1].idx = 1
    /\ Uploading(r2) /\ req[r2].pc = "close" /\ req[r2].res.status = 500
    /\ req[r2].nfiles = 2 /\ req[r2].idx = 2 /\ req[r2].nok = 1

\* ---------------------------------------------------------------- C10
\* C10: whenever no request is in flight, no database connection opened by a
\* handler is still open.
C10_NoOpenConnections ==
  (\A r \in Slots : req[r].pc \in {"idle", "done"}) => openConns = 0

====
